---- MODULE Spec2Model ----
(***************************************************************************)
(* Document ingestion and retrieval service.                               *)
(*                                                                         *)
(* The model covers                                                        *)
(*   - app.py: the upload handler, the ingestion worker thread             *)
(*     (process_queue), the status readers and the shutdown code of        *)
(*     __main__;                                                           *)
(*   - document_processor.py: process_document (loader selection, OCR      *)
(*     fallback, chunk numbering, the three persisted artifacts);          *)
(*   - vector_db.py: get_document_chunks (reload of the persisted chunks). *)
(*                                                                         *)
(* Text is a sequence of tokens <<kind, value>>:                           *)
(*   <<"w", n>>    a line of ordinary text                                 *)
(*   <<"nl", 0>>   the newline character                                   *)
(*   <<"mk", i>>   the line "--- Document Chunk i ---" written by          *)
(*                 process_document                                        *)
(*   <<"mkc", i>>  the same line "--- Document Chunk i ---" when it is     *)
(*                 part of the extracted text of the document itself       *)
(* The two marker kinds are the same characters in the file: every         *)
(* operator that reads a file treats them alike (IsMarkerLine).            *)
(***************************************************************************)
EXTENDS Integers, Sequences, FiniteSets, TLC

\* ------------------------------------------------------------------ bounds
MaxDocs == 2        \* document ids handed out by upload_files
MaxRequests == 2    \* upload requests served at the same time
MaxPage == 2        \* the highest page number a loader attaches to a page
MaxChunks == 2      \* chunks of the document of a direct call

\* ------------------------------------------------------- program constants
OcrThreshold == 100 \* document_processor.py:73

NumWorkersMut == 1 + 1

\* app.py starts one worker thread
NumWorkers == 1

Docs == 1..MaxDocs
Requests == 1..MaxRequests
Workers == 1..NumWorkers

\* ------------------------------------------------------------------- text
NL == <<"nl", 0>>
Word(n) == <<"w", n>>
Marker(i) == <<"mk", i>>
TextMarker(i) == <<"mkc", i>>

IsSpace(tok) == tok[1] = "nl"
IsMarkerLine(tok) == tok[1] \in {"mk", "mkc"}

RECURSIVE LStrip(_)
LStrip(s) == IF s # <<>> /\ IsSpace(Head(s)) THEN LStrip(Tail(s)) ELSE s

RECURSIVE RStrip(_)
RStrip(s) ==
  IF s # <<>> /\ IsSpace(s[Len(s)]) THEN RStrip(SubSeq(s, 1, Len(s) - 1)) ELSE s

\* str.strip()
Strip(s) == RStrip(LStrip(s))

RECURSIVE Concat(_)
Concat(ss) == IF ss = <<>> THEN <<>> ELSE Head(ss) \o Concat(Tail(ss))

\* ------------------------------------------------------------ file names
\* A file name of an upload: whether its stem has any ASCII letter or digit,
\* and its extension after the last dot.
Filenames ==
  { [stem_ascii |-> TRUE,  ext |-> "pdf"],
    [stem_ascii |-> TRUE,  ext |-> "PNG"],
    [stem_ascii |-> TRUE,  ext |-> "txt"],
    [stem_ascii |-> FALSE, ext |-> "pdf"] }

Lower(ext) == IF ext = "PNG" THEN "png" ELSE ext

ALLOWED_EXTENSIONS == {"pdf", "jpg", "jpeg", "png", "tiff", "tif"}

allowed_file(filename) == Lower(filename.ext) \in ALLOWED_EXTENSIONS

\* os.path.splitext(file_path)[1].lower() of the stored path
\* UPLOAD_FOLDER/<doc_id>_<secure_filename(name)>: secure_filename drops every
\* non-ASCII character and strips leading dots, so a name whose stem has no
\* ASCII character is stored as "pdf", a path with no extension.
FileExt(filename) ==
  IF filename.stem_ascii THEN "." \o Lower(filename.ext) ELSE ""

IMAGE_EXTENSIONS == {".jpg", ".jpeg", ".png", ".tiff", ".tif"}

\* -------------------------------------------------- document_processor.py
\* One element of split_docs: a chunk the text splitter returned.  page is
\* doc.metadata['page'] when the loader set it (has_page); src names the
\* loader the chunk came from.
ChunkDoc(text, has_page, page, src) ==
  [page_content |-> text, has_page |-> has_page, page |-> page, src |-> src]

\* What the fast loader (PyPDFLoader) does with a file: it raises, or returns
\* pages whose concatenation has text_len characters, blank_len of them
\* leading or trailing whitespace; docs is what the text splitter makes of
\* these pages.
FastOutcome(raised, text_len, blank_len, docs) ==
  [raised |-> raised, text_len |-> text_len, blank_len |-> blank_len,
   docs |-> docs]

\* What one call of an OCR loader (UnstructuredPDFLoader, or
\* UnstructuredImageLoader for an image) does.
OcrOutcome(raised, docs) == [raised |-> raised, docs |-> docs]

\* len(total_text.strip())
StrippedLen(fast) == fast.text_len - fast.blank_len

NoContentMut(fast) == StrippedLen(fast) <= OcrThreshold

\* len(total_text.strip()) < 100
NoContent(fast) == StrippedLen(fast) < OcrThreshold

Loaded(ocr_used, docs) ==
  [ok |-> TRUE, error |-> "", ocr_used |-> ocr_used, split_docs |-> docs]

LoadFailed(msg) ==
  [ok |-> FALSE, error |-> msg, ocr_used |-> FALSE, split_docs |-> <<>>]

OcrError == "ocr loader failed"
WriteError == "write failed"
UnsupportedError(file_ext) == "Unsupported file type: " \o file_ext

\* The OCR loader called from the handler of a fast-path exception.
OcrAfterError(o) ==
  IF o.raised THEN LoadFailed(OcrError) ELSE Loaded(TRUE, o.docs)

LoadPdfMut(fast, ocr) ==
  IF fast.raised
  THEN OcrAfterError(ocr[1])
  ELSE IF NoContent(fast)
       THEN IF ocr[1].raised
            THEN OcrAfterError(ocr[2])
            ELSE Loaded(TRUE, fast.docs)
       ELSE Loaded(FALSE, fast.docs)

\* The '.pdf' branch.  An exception of the OCR loader raised inside the try
\* block (the minimal-text case) is caught by the same handler, which calls
\* the OCR loader once more.
LoadPdf(fast, ocr) ==
  IF fast.raised
  THEN OcrAfterError(ocr[1])
  ELSE IF NoContent(fast)
       THEN IF ocr[1].raised
            THEN OcrAfterError(ocr[2])
            ELSE Loaded(TRUE, ocr[1].docs)
       ELSE Loaded(FALSE, fast.docs)

\* Loader selection by extension, followed by the split into chunks.
LoadDocuments(file_ext, fast, ocr) ==
  IF file_ext = ".pdf" THEN LoadPdf(fast, ocr)
  ELSE IF file_ext \in IMAGE_EXTENSIONS THEN OcrAfterError(ocr[1])
  ELSE LoadFailed(UnsupportedError(file_ext))

\* doc.metadata['page'] after the loop body has defaulted it to i + 1
PageOf(doc, i) == IF doc.has_page THEN doc.page ELSE i

ChunkIdMut(i) == IF i = 1 THEN 1 ELSE i + 1

\* 'chunk_id': i + 1 of enumerate (i here counts from 1)
ChunkId(i) == i

\* pages_info: one record per chunk ('source', the upload path, is written
\* too and read by nothing)
PagesInfo(split_docs, doc_id) ==
  [i \in 1..Len(split_docs) |->
     [chunk_id |-> ChunkId(i), page |-> PageOf(split_docs[i], i),
      doc_id |-> doc_id]]

\* "\n--- Document Chunk {i+1} ---\n" + page_content + "\n"
ChunkBlock(split_docs, i) ==
  <<NL, Marker(ChunkId(i)), NL>> \o split_docs[i].page_content \o <<NL>>

FullText(split_docs) ==
  Concat([i \in 1..Len(split_docs) |-> ChunkBlock(split_docs, i)])

Metadata(doc_id, file_ext, split_docs, ocr_used) ==
  [doc_id |-> doc_id, file_type |-> file_ext,
   chunks_count |-> Len(split_docs), ocr_used |-> ocr_used]

NoMetadata == [doc_id |-> 0, file_type |-> "", chunks_count |-> 0,
               ocr_used |-> FALSE]

\* ----- the processed directory: three artifacts per document id
Absent(empty) == [state |-> "absent", data |-> empty]
Partial(empty) == [state |-> "partial", data |-> empty]
Full(data) == [state |-> "full", data |-> data]

NoFiles ==
  [content |-> Absent(<<>>), chunks |-> Absent(<<>>),
   metadata |-> Absent(NoMetadata)]

\* with open(path, 'w') as f: f.write(...) / json.dump(...).  open may fail
\* (nothing is created); the write may fail after open has created the file.
WriteOutcomes == {"ok", "open_failed", "write_failed"}

WriteFile(old, data, empty, outcome) ==
  CASE outcome = "ok" -> Full(data)
    [] outcome = "open_failed" -> old
    [] outcome = "write_failed" -> Partial(empty)

Exists(artifact) == artifact.state # "absent"

\* ----- results of process_document
Success(doc_id, split_docs, file_ext, ocr_used) ==
  [status |-> "success", doc_id |-> doc_id, chunks |-> Len(split_docs),
   file_type |-> file_ext, ocr_used |-> ocr_used, error |-> "",
   raised |-> FALSE]

ErrorResultMut(doc_id, msg) ==
  [status |-> "error", doc_id |-> doc_id, chunks |-> 0, file_type |-> "",
   ocr_used |-> FALSE, error |-> msg, raised |-> TRUE]

\* except Exception as e: return {'status': 'error', ..., 'error': str(e)}
\* (raised: the exception left process_document instead)
ErrorResult(doc_id, msg) ==
  [status |-> "error", doc_id |-> doc_id, chunks |-> 0, file_type |-> "",
   ocr_used |-> FALSE, error |-> msg, raised |-> FALSE]

NoResult ==
  [status |-> "", doc_id |-> 0, chunks |-> 0, file_type |-> "",
   ocr_used |-> FALSE, error |-> "", raised |-> FALSE]

\* ------------------------------------------------------------ vector_db.py
\* re.split(r'\n---\s*Document Chunk \d+\s*---\n', content): the pieces
\* between the non-overlapping matches, found from left to right; cur is the
\* piece being collected.
RECURSIVE ReSplit(_, _)
ReSplit(s, cur) ==
  IF s = <<>> THEN <<cur>>
  ELSE IF Len(s) >= 3 /\ s[1] = NL /\ IsMarkerLine(s[2]) /\ s[3] = NL
       THEN <<cur>> \o ReSplit(SubSeq(s, 4, Len(s)), <<>>)
       ELSE ReSplit(Tail(s), Append(cur, Head(s)))

NonBlank(piece) == Strip(piece) # <<>>

\* [chunk for chunk in chunks if chunk.strip()]
TextChunks(content) == SelectSeq(ReSplit(content, <<>>), NonBlank)

\* chunks_metadata: the last record of chunks_info with this chunk_id
HasRecord(chunks_info, chunk_id) ==
  \E k \in 1..Len(chunks_info) : chunks_info[k].chunk_id = chunk_id

RecordOf(chunks_info, chunk_id) ==
  LET ks == {k \in 1..Len(chunks_info) : chunks_info[k].chunk_id = chunk_id}
      last == CHOOSE k \in ks : \A j \in ks : j <= k
  IN chunks_info[last]

\* f"Page {metadata.get('page', 'Unknown')}, Chunk {chunk_id}"
Citation(page_label, chunk_id) ==
  "Page " \o page_label \o ", Chunk " \o ToString(chunk_id)

DefaultPageMut(chunk_id) == ToString(chunk_id)

\* 'page': 'Unknown' of the default metadata (lines 65-69)
DefaultPage(chunk_id) == "Unknown"

\* The metadata of the i-th loaded chunk: the persisted record when there is
\* one, else the default with page 'Unknown'; then the citation is added.
ChunkMetadata(chunks_info, doc_id, chunk_id) ==
  IF HasRecord(chunks_info, chunk_id)
  THEN LET rec == RecordOf(chunks_info, chunk_id)
       IN [page |-> ToString(rec.page), doc_id |-> rec.doc_id,
           chunk_id |-> rec.chunk_id,
           citation |-> Citation(ToString(rec.page), chunk_id)]
  ELSE [page |-> DefaultPage(chunk_id), doc_id |-> doc_id,
        chunk_id |-> chunk_id,
        citation |-> Citation(DefaultPage(chunk_id), chunk_id)]

\* get_document_chunks(content_path, doc_id, chunks_path) on the artifacts of
\* doc_id.  A missing content file or an unreadable chunks JSON raises, and
\* the handler returns [].
get_document_chunks(files, doc_id) ==
  IF files.content.state = "absent" \/ files.chunks.state = "partial"
  THEN <<>>
  ELSE LET chunks_info == IF files.chunks.state = "full"
                          THEN files.chunks.data ELSE <<>>
           chunks == TextChunks(files.content.data)
       IN [i \in 1..Len(chunks) |->
             [page_content |-> Strip(chunks[i]),
              metadata |-> ChunkMetadata(chunks_info, doc_id, i)]]

\* ----- the three writes of process_document, in program order
WriteContent(files, split_docs, outcome) ==
  [files EXCEPT !.content = WriteFile(@, FullText(split_docs), <<>>, outcome)]

WriteChunks(files, split_docs, doc_id, outcome) ==
  [files EXCEPT
     !.chunks = WriteFile(@, PagesInfo(split_docs, doc_id), <<>>, outcome)]

WriteMetadata(files, doc_id, file_ext, split_docs, ocr_used, outcome) ==
  [files EXCEPT
     !.metadata = WriteFile(@, Metadata(doc_id, file_ext, split_docs, ocr_used),
                            NoMetadata, outcome)]

\* process_document(file_path, doc_id) as one call: the result it returns
\* and the artifacts it leaves, given what the loaders do (fast, ocr) and
\* what the three writes do (wr).
process_document(doc_id, file_ext, fast, ocr, wr, files) ==
  LET ld == LoadDocuments(file_ext, fast, ocr)
      f1 == WriteContent(files, ld.split_docs, wr[1])
      f2 == WriteChunks(f1, ld.split_docs, doc_id, wr[2])
      f3 == WriteMetadata(f2, doc_id, file_ext, ld.split_docs, ld.ocr_used,
                          wr[3])
  IN IF ~ld.ok
     THEN [result |-> ErrorResult(doc_id, ld.error), files |-> files,
           split_docs |-> <<>>]
     ELSE IF wr[1] # "ok"
     THEN [result |-> ErrorResult(doc_id, WriteError), files |-> f1,
           split_docs |-> ld.split_docs]
     ELSE IF wr[2] # "ok"
     THEN [result |-> ErrorResult(doc_id, WriteError), files |-> f2,
           split_docs |-> ld.split_docs]
     ELSE IF wr[3] # "ok"
     THEN [result |-> ErrorResult(doc_id, WriteError), files |-> f3,
           split_docs |-> ld.split_docs]
     ELSE [result |-> Success(doc_id, ld.split_docs, file_ext, ld.ocr_used),
           files |-> f3, split_docs |-> ld.split_docs]

\* ------------------------------------------------------------------ app.py
VARIABLES
  doc_status,    \* app.py doc_status: doc id -> status string
  doc_metadata,  \* app.py doc_metadata: doc id -> metadata of a completed doc
  doc_queue,     \* app.py doc_queue: the items put and not yet taken
  processed,     \* the processed/ directory: doc id -> its three artifacts
  next_id,       \* the next fresh uuid4 of upload_files
  req,           \* the upload requests being served
  wpc,           \* where each worker thread is in process_queue
  wjob,          \* the locals of each worker thread
  main,          \* where the main thread is in __main__
  put_order,     \* history: the doc ids in the order of doc_queue.put, 0 for None
  call,          \* a direct call of process_document: arguments and result
  loaded,        \* what get_document_chunks returned for that document
  qry            \* the query path: a call of a query-time function, or the
                 \* /query request being served

vars == <<doc_status, doc_metadata, doc_queue, processed, next_id, req, wpc,
          wjob, main, put_order, call, loaded, qry>>

NoneItem == [doc_id |-> 0, file_ext |-> "None"]
Item(doc_id, file_ext) == [doc_id |-> doc_id, file_ext |-> file_ext]

NoJob == [doc_info |-> NoneItem, load |-> LoadFailed(""), result |-> NoResult]
IdleReq == [pc |-> "idle", doc_info |-> NoneItem]
NoCall == [pc |-> "idle", doc_id |-> 0, file_ext |-> "",
           fast |-> FastOutcome(FALSE, 0, 0, <<>>),
           ocr_raised |-> <<FALSE, FALSE>>, wr |-> <<"ok", "ok", "ok">>,
           split_docs |-> <<>>, result |-> NoResult]

NoQuery == [pc |-> "idle"]

ErrorStatus(msg) == "error: " \o msg
IsTerminal(status) == status \notin {"queued", "processing"}

Init ==
  /\ doc_status = <<>>
  /\ doc_metadata = <<>>
  /\ doc_queue = <<>>
  /\ processed = [d \in Docs |-> NoFiles]
  /\ next_id = 1
  /\ req = [r \in Requests |-> IdleReq]
  /\ wpc = [w \in Workers |-> "get"]
  /\ wjob = [w \in Workers |-> NoJob]
  /\ main = "serving"
  /\ put_order = <<>>
  /\ call = NoCall
  /\ loaded = <<>>
  /\ qry = NoQuery

\* ----- what the files of the uploads hold
\* The text of a file as the splitter cuts it: each piece with the page the
\* loader attaches to it, if any.  Both loaders read the same file, so their
\* chunks differ in the src tag only; the fast loader finds nothing in a file
\* whose text layer is blank.
Piece(text, has_page, page) ==
  [page_content |-> text, has_page |-> has_page, page |-> page]

Tag(body, src) ==
  [i \in 1..Len(body) |->
     ChunkDoc(body[i].page_content, body[i].has_page, body[i].page, src)]

FastOf(raised, text_len, blank_len, body) ==
  FastOutcome(raised, text_len, blank_len,
              IF raised \/ text_len - blank_len = 0
              THEN <<>> ELSE Tag(body, "fast"))

OcrOf(ocr_raised, body) ==
  [k \in 1..2 |-> OcrOutcome(ocr_raised[k],
                             IF ocr_raised[k] THEN <<>> ELSE Tag(body, "ocr"))]

OcrRaises == {<<FALSE, FALSE>>, <<TRUE, FALSE>>, <<TRUE, TRUE>>}

\* The files the uploads of the service model hold.
SysBodies == {<<Piece(<<Word(1)>>, TRUE, 0)>>}
SysFast(body) ==
  {FastOf(TRUE, 0, 0, body), FastOf(FALSE, 0, 0, body),
   FastOf(FALSE, OcrThreshold + 50, 0, body)}

\* What a write does in the service model: it succeeds, or it fails after
\* open has created the file.
SysWriteOutcomes == {"ok", "write_failed"}

\* ----- upload_files
\* A request arrives and starts its loop over the files it carries.
UploadBegin(r) ==
  /\ main = "serving"
  /\ req[r].pc = "idle"
  /\ req' = [req EXCEPT ![r] = [@ EXCEPT !.pc = "loop"]]
  /\ UNCHANGED <<qry, doc_status, doc_metadata, doc_queue, processed, next_id, wpc,
                 wjob, main, put_order, call, loaded>>

\* The end of an iteration: the loop goes on when more files are left.
NextFile(rq, more) ==
  [rq EXCEPT !.pc = IF more THEN "loop" ELSE "idle", !.doc_info = NoneItem]

\* One iteration up to doc_status[doc_id] = "queued"; a file that is not
\* allowed only adds an error entry to the response.
UploadFile(r) ==
  /\ main # "exited"
  /\ req[r].pc = "loop"
  /\ \E f \in Filenames :
       IF allowed_file(f)
       THEN /\ next_id <= MaxDocs
            /\ doc_status' = (next_id :> "queued") @@ doc_status
            /\ next_id' = next_id + 1
            /\ req' = [req EXCEPT ![r] = [@ EXCEPT !.pc = "put",
                          !.doc_info = Item(next_id, FileExt(f))]]
       ELSE /\ \E more \in BOOLEAN : req' = [req EXCEPT ![r] = NextFile(@, more)]
            /\ UNCHANGED <<doc_status, next_id>>
  /\ UNCHANGED <<qry, doc_metadata, doc_queue, processed, wpc, wjob, main,
                 put_order, call, loaded>>

QueuePutMut(q, item) == <<item>> \o q

\* queue.Queue is first in, first out: put adds at the tail
QueuePut(q, item) == Append(q, item)

\* doc_queue.put({...}) and the end of the iteration
UploadPut(r) ==
  /\ main # "exited"
  /\ req[r].pc = "put"
  /\ doc_queue' = QueuePut(doc_queue, req[r].doc_info)
  /\ put_order' = Append(put_order, req[r].doc_info.doc_id)
  /\ \E more \in BOOLEAN : req' = [req EXCEPT ![r] = NextFile(@, more)]
  /\ UNCHANGED <<qry, doc_status, doc_metadata, processed, next_id, wpc, wjob,
                 main, call, loaded>>

\* ----- process_queue
SetStatus(doc_id, status) == [doc_status EXCEPT ![doc_id] = status]

QueueGetMut(q) == q

\* the queue after doc_queue.get() has taken its head
QueueGet(q) == Tail(q)

\* doc_info = doc_queue.get(...); if doc_info is None: break
\* (queue.Empty after the timeout changes nothing and is left to stuttering)
W_Get(w) ==
  /\ wpc[w] = "get"
  /\ doc_queue # <<>>
  /\ doc_queue' = QueueGet(doc_queue)
  /\ IF Head(doc_queue) = NoneItem
     THEN /\ wpc' = [wpc EXCEPT ![w] = "exited"]
          /\ UNCHANGED wjob
     ELSE /\ wpc' = [wpc EXCEPT ![w] = "mark"]
          /\ wjob' = [wjob EXCEPT ![w] = [NoJob EXCEPT !.doc_info = Head(doc_queue)]]
  /\ UNCHANGED <<qry, doc_status, doc_metadata, processed, next_id, req, main,
                 put_order, call, loaded>>

\* doc_status[doc_id] = "processing"
W_Mark(w) ==
  /\ wpc[w] = "mark"
  /\ doc_status' = SetStatus(wjob[w].doc_info.doc_id, "processing")
  /\ wpc' = [wpc EXCEPT ![w] = "load"]
  /\ UNCHANGED <<qry, doc_metadata, doc_queue, processed, next_id, req, wjob, main,
                 put_order, call, loaded>>

\* process_document up to the first write: loader selection and splitting
W_Load(w) ==
  /\ wpc[w] = "load"
  /\ \E body \in SysBodies, ocr_raised \in OcrRaises :
     \E fast \in SysFast(body) :
       LET ld == LoadDocuments(wjob[w].doc_info.file_ext, fast,
                               OcrOf(ocr_raised, body))
       IN IF ld.ok
          THEN /\ wjob' = [wjob EXCEPT ![w].load = ld]
               /\ wpc' = [wpc EXCEPT ![w] = "write_content"]
          ELSE /\ wjob' = [wjob EXCEPT ![w].result =
                             ErrorResult(wjob[w].doc_info.doc_id, ld.error)]
               /\ wpc' = [wpc EXCEPT ![w] = "result"]
  /\ UNCHANGED <<qry, doc_status, doc_metadata, doc_queue, processed, next_id, req,
                 main, put_order, call, loaded>>

\* One of the three writes, then the next one; a failed write ends
\* process_document with the error result.
WriteStep(w, files, outcome, next) ==
  /\ processed' = [processed EXCEPT ![wjob[w].doc_info.doc_id] = files]
  /\ IF outcome = "ok"
     THEN /\ wpc' = [wpc EXCEPT ![w] = next]
          /\ wjob' = IF next = "result"
                     THEN [wjob EXCEPT ![w].result =
                             Success(wjob[w].doc_info.doc_id,
                                     wjob[w].load.split_docs,
                                     wjob[w].doc_info.file_ext,
                                     wjob[w].load.ocr_used)]
                     ELSE wjob
     ELSE /\ wpc' = [wpc EXCEPT ![w] = "result"]
          /\ wjob' = [wjob EXCEPT ![w].result =
                        ErrorResult(wjob[w].doc_info.doc_id, WriteError)]
  /\ UNCHANGED <<qry, doc_status, doc_metadata, doc_queue, next_id, req, main,
                 put_order, call, loaded>>

W_WriteContent(w) ==
  /\ wpc[w] = "write_content"
  /\ \E o \in SysWriteOutcomes :
       WriteStep(w, WriteContent(processed[wjob[w].doc_info.doc_id],
                                 wjob[w].load.split_docs, o),
                 o, "write_chunks")

W_WriteChunks(w) ==
  /\ wpc[w] = "write_chunks"
  /\ \E o \in SysWriteOutcomes :
       WriteStep(w, WriteChunks(processed[wjob[w].doc_info.doc_id],
                                wjob[w].load.split_docs,
                                wjob[w].doc_info.doc_id, o),
                 o, "write_metadata")

W_WriteMetadata(w) ==
  /\ wpc[w] = "write_metadata"
  /\ \E o \in SysWriteOutcomes :
       WriteStep(w, WriteMetadata(processed[wjob[w].doc_info.doc_id],
                                  wjob[w].doc_info.doc_id,
                                  wjob[w].doc_info.file_ext,
                                  wjob[w].load.split_docs,
                                  wjob[w].load.ocr_used, o),
                 o, "result")

AfterErrorMut == "exited"

\* Where the worker is after an error status was written: task_done() and
\* the next doc_queue.get of the while True loop.
AfterError == "get"

StatusOfMut(result) ==
  IF ~result.raised THEN "completed" ELSE "error: " \o result.error

\* The status the worker writes when process_document has ended: 'completed'
\* for a success result, "error: <msg>" for an error result and for an
\* exception (the inner except of process_queue).
StatusOf(result) ==
  IF ~result.raised /\ result.status = "success"
  THEN "completed" ELSE ErrorStatus(result.error)

\* doc_status[doc_id] = "completed" | f"error: {error_msg}"; after an error
\* the iteration ends with task_done() and the loop goes on.
W_Result(w) ==
  /\ wpc[w] = "result"
  /\ doc_status' = SetStatus(wjob[w].doc_info.doc_id, StatusOf(wjob[w].result))
  /\ IF StatusOf(wjob[w].result) = "completed"
     THEN /\ wpc' = [wpc EXCEPT ![w] = "store_metadata"]
          /\ UNCHANGED wjob
     ELSE /\ wpc' = [wpc EXCEPT ![w] = AfterError]
          /\ wjob' = [wjob EXCEPT ![w] = NoJob]
  /\ UNCHANGED <<qry, doc_metadata, doc_queue, processed, next_id, req, main,
                 put_order, call, loaded>>

\* doc_metadata[doc_id] = {...}, then task_done() ('original_filename',
\* 'file_path' and 'processed_time' are stored too and decide nothing here)
W_StoreMetadata(w) ==
  /\ wpc[w] = "store_metadata"
  /\ doc_metadata' =
       (wjob[w].doc_info.doc_id :>
          [chunks |-> wjob[w].result.chunks,
           file_type |-> wjob[w].result.file_type,
           ocr_used |-> wjob[w].result.ocr_used]) @@ doc_metadata
  /\ wpc' = [wpc EXCEPT ![w] = "get"]
  /\ wjob' = [wjob EXCEPT ![w] = NoJob]
  /\ UNCHANGED <<qry, doc_status, doc_queue, processed, next_id, req, main,
                 put_order, call, loaded>>

\* ----- __main__
\* app.run returns; finally: doc_queue.put(None)
M_Shutdown ==
  /\ main = "serving"
  /\ doc_queue' = QueuePut(doc_queue, NoneItem)
  /\ put_order' = Append(put_order, NoneItem.doc_id)
  /\ main' = "joining"
  /\ UNCHANGED <<qry, doc_status, doc_metadata, processed, next_id, req, wpc, wjob,
                 call, loaded>>

\* The worker is inside the call process_document(file_path, doc_id).
InProcessDocument(w) ==
  wpc[w] \in {"load", "write_content", "write_chunks", "write_metadata"}

\* worker_thread.join(timeout=5) returns: the worker has ended, or 5 seconds
\* have passed.  Since the sentinel is on the queue the worker never waits,
\* and everything it does outside process_document takes no time to speak
\* of, so the 5 seconds run out while it is inside process_document.
M_JoinReturns ==
  /\ main = "joining"
  /\ \/ \A w \in Workers : wpc[w] = "exited"
     \/ \E w \in Workers : InProcessDocument(w)
  /\ main' = "exiting"
  /\ UNCHANGED <<qry, doc_status, doc_metadata, doc_queue, processed, next_id, req,
                 wpc, wjob, put_order, call, loaded>>

\* The main thread ends and the interpreter exits: it stops every daemon
\* thread where it is (the worker is started with daemon=True, and so are
\* the threads serving requests).
M_Exit ==
  /\ main = "exiting"
  /\ main' = "exited"
  /\ wpc' = [w \in Workers |-> IF wpc[w] = "exited" THEN "exited" ELSE "killed"]
  /\ UNCHANGED <<qry, doc_status, doc_metadata, doc_queue, processed, next_id, req,
                 wjob, put_order, call, loaded>>

Worker(w) ==
  \/ W_Get(w)
  \/ W_Mark(w)
  \/ W_Load(w)
  \/ W_WriteContent(w)
  \/ W_WriteChunks(w)
  \/ W_WriteMetadata(w)
  \/ W_Result(w)
  \/ W_StoreMetadata(w)

Upload(r) == UploadBegin(r) \/ UploadFile(r) \/ UploadPut(r)

Next ==
  \/ \E r \in Requests : Upload(r)
  \/ \E w \in Workers : Worker(w)
  \/ M_Shutdown
  \/ M_JoinReturns
  \/ M_Exit

Spec == Init /\ [][Next]_vars

\* ----- the service while it is serving: no sentinel is put
\* The worker thread runs whenever it can take a step, and a request thread
\* that has written 'queued' goes on to its doc_queue.put.
LiveNext ==
  \/ \E r \in Requests : Upload(r)
  \/ \E w \in Workers : Worker(w)

LiveSpec ==
  /\ Init
  /\ [][LiveNext]_vars
  /\ \A w \in Workers : WF_vars(Worker(w))
  /\ \A r \in Requests : WF_vars(UploadPut(r))

\* ----- process_document and get_document_chunks called directly
\* The chunk texts of the documents of a direct call: plain lines, and text
\* in which the document itself holds a line "--- Document Chunk n ---" (in
\* the middle, at the end, at the start of a chunk).  The splitter returns
\* stripped, non-empty chunks.
Texts ==
  { <<Word(1)>>,
    <<Word(1), NL, Word(2)>>,
    <<Word(1), NL, TextMarker(9), NL, Word(2)>>,
    <<Word(2), NL, TextMarker(1)>>,
    <<TextMarker(1), NL, Word(1)>> }

Pieces ==
  {Piece(t, FALSE, 0) : t \in Texts}
    \cup {Piece(t, TRUE, p) : t \in Texts, p \in {0, MaxPage}}

Bodies == UNION {[1..n -> Pieces] : n \in 0..MaxChunks}

\* len(total_text) and the whitespace at its ends, around the threshold
TextLens ==
  {<<0, 0>>} \cup
  {<<l, b>> : l \in {OcrThreshold - 1, OcrThreshold, OcrThreshold + 1},
              b \in {0, 1}}

FileExts == {".pdf", ".png", ""}

WriteRuns ==
  {<<"ok", "ok", "ok">>} \cup
  {<<o, "ok", "ok">> : o \in WriteOutcomes \ {"ok"}} \cup
  {<<"ok", o, "ok">> : o \in WriteOutcomes \ {"ok"}} \cup
  {<<"ok", "ok", o>> : o \in WriteOutcomes \ {"ok"}}

CallDoc == 1

\* result = process_document(file_path, doc_id) on a fresh document id
DocProcess ==
  /\ call.pc = "idle"
  /\ \E file_ext \in FileExts, body \in Bodies, fast_raised \in BOOLEAN,
        tl \in TextLens, ocr_raised \in OcrRaises, wr \in WriteRuns :
       LET fast == FastOf(fast_raised, IF fast_raised THEN 0 ELSE tl[1],
                          IF fast_raised THEN 0 ELSE tl[2], body)
           out == process_document(CallDoc, file_ext, fast,
                                   OcrOf(ocr_raised, body), wr,
                                   processed[CallDoc])
       IN \* the fast loader is called for a PDF only, and text it finds
          \* is text the splitter cuts into chunks
          /\ (file_ext # ".pdf") => (~fast_raised /\ tl = <<0, 0>>)
          /\ (body = <<>>) => (fast_raised \/ tl = <<0, 0>>)
          /\ processed' = [processed EXCEPT ![CallDoc] = out.files]
          /\ call' = [pc |-> "returned", doc_id |-> CallDoc,
                      file_ext |-> file_ext, fast |-> fast,
                      ocr_raised |-> ocr_raised, wr |-> wr,
                      split_docs |-> out.split_docs, result |-> out.result]
  /\ UNCHANGED <<qry, doc_status, doc_metadata, doc_queue, next_id, req, wpc, wjob,
                 main, put_order, loaded>>

\* docs = get_document_chunks(content_path, doc_id, chunks_path)
DocLoad ==
  /\ call.pc = "returned"
  /\ loaded' = get_document_chunks(processed[call.doc_id], call.doc_id)
  /\ call' = [call EXCEPT !.pc = "loaded"]
  /\ UNCHANGED <<qry, doc_status, doc_metadata, doc_queue, processed, next_id, req,
                 wpc, wjob, main, put_order>>

DocNext == DocProcess \/ DocLoad

DocSpec == Init /\ [][DocNext]_vars

\* ------------------------------------------------------- theme_processor.py
\* ----- the theme name
\* A chunk text as the theme name sees it: its lines, each with the number
\* of characters before its first '.', '!' or '?' (pre), whether it has one
\* (term), and the number of characters after it (post).
Line(pre, term, post) == [pre |-> pre, term |-> term, post |-> post]

LineLen(l) == l.pre + (IF l.term THEN 1 ELSE 0) + l.post

\* len(content): the lines and the newlines between them
RECURSIVE ContentLen(_)
ContentLen(c) ==
  IF c = <<>> THEN 0
  ELSE IF Len(c) = 1 THEN LineLen(c[1])
  ELSE LineLen(Head(c)) + 1 + ContentLen(Tail(c))

NameLimit == 50   \* theme_processor.py:89
NameKeep == 47    \* theme_processor.py:90

\* A theme name: the characters content[start : start + chars] where start
\* is the beginning of line `line`, followed by "..." when dots.
Name(line, chars, dots) == [line |-> line, chars |-> chars, dots |-> dots]

NameLen(name) == name.chars + (IF name.dots THEN 3 ELSE 0)

\* re.search(r'(.*?[.!?])', content): '.' matches no newline, so the
\* leftmost match starts at the beginning of the first line that holds a
\* terminator and ends with that line's first terminator.
HasSentence(c) == \E i \in 1..Len(c) : c[i].term

FirstSentenceLine(c) ==
  CHOOSE i \in 1..Len(c) : c[i].term /\ \A j \in 1..(i - 1) : ~c[j].term

\* content[:50] + "..." if len(content) > 50 else content
NoSentenceName(c) ==
  IF ContentLen(c) > NameLimit
  THEN Name(1, NameLimit, TRUE)
  ELSE Name(1, ContentLen(c), FALSE)

\* theme_name of identify_themes and identify_themes_modern
theme_name(c) ==
  IF HasSentence(c)
  THEN LET i == FirstSentenceLine(c)
           n == c[i].pre + 1
       IN IF n > NameLimit THEN Name(i, NameKeep, TRUE) ELSE Name(i, n, FALSE)
  ELSE NoSentenceName(c)

\* ----- theme_name called directly
MaxLines == 2       \* lines of a chunk text

\* get_document_chunks strips the chunk, so its first and its last line are
\* not empty.
Lines ==
  {Line(pre, term, post) :
     pre \in {0, 3, NameKeep - 1, NameKeep, NameLimit - 1, NameLimit,
              NameLimit + 1},
     term \in BOOLEAN, post \in {0, 4}} \ {Line(0, FALSE, 0)}

Contents == UNION {[1..n -> Lines] : n \in 1..MaxLines}

ingestion == <<doc_status, doc_metadata, doc_queue, processed, next_id, req,
               wpc, wjob, main, put_order, call, loaded>>

ThemeName ==
  /\ qry.pc = "idle"
  /\ \E c \in Contents :
       qry' = [pc |-> "named", content |-> c, theme_name |-> theme_name(c)]
  /\ UNCHANGED ingestion

NameSpec == Init /\ [][ThemeName]_vars

\* ------------------------------------------- vector_db.py: index and search
\* The artifacts of a document id; an id nothing was written for has none.
FilesOf(files, doc_id) ==
  IF doc_id \in DOMAIN files THEN files[doc_id] ELSE NoFiles

\* A FAISS store: the Document objects it was built from, in insertion
\* order.  None is the store that was not built.
Index(docs) == [built |-> TRUE, docs |-> docs]
None == [built |-> FALSE, docs |-> <<>>]

\* FAISS.from_documents(docs, embeddings): raises when the embedding fails
\* (embed_ok is false).
\* create_document_vector_db(doc_id)
create_document_vector_db(files, doc_id, embed_ok) ==
  LET docs == get_document_chunks(FilesOf(files, doc_id), doc_id)
  IN IF docs = <<>> THEN None
     ELSE IF ~embed_ok THEN None
     ELSE Index(docs)

\* all_docs.extend(docs) for doc_id in doc_ids
RECURSIVE AllDocs(_, _)
AllDocs(files, doc_ids) ==
  IF doc_ids = <<>> THEN <<>>
  ELSE get_document_chunks(FilesOf(files, Head(doc_ids)), Head(doc_ids))
         \o AllDocs(files, Tail(doc_ids))

\* create_multi_document_vector_db(doc_ids)
create_multi_document_vector_db(files, doc_ids, embed_ok) ==
  LET all_docs == AllDocs(files, doc_ids)
  IN IF all_docs = <<>> THEN None
     ELSE IF ~embed_ok THEN None
     ELSE Index(all_docs)

\* The embedding model maps a text to a vector, here a number: emb[n] for
\* a text whose first word is Word(n).  The distance of two texts is the
\* distance of their vectors, so equal texts are at distance 0, and texts
\* that differ may be too.
FirstWord(text) ==
  LET ws == SelectSeq(text, LAMBDA tok : tok[1] = "w")
  IN IF ws = <<>> THEN 0 ELSE ws[1][2]

Abs(x) == IF x < 0 THEN 0 - x ELSE x

Dist(emb, a, b) == Abs(emb[FirstWord(a)] - emb[FirstWord(b)])

\* vector_db.similarity_search(query_text, k): the min(k, n) stored
\* documents nearest to the query, nearest first.  Which of two documents
\* at the same distance comes first is up to the index: the one stored
\* first (tie = "first") or the one stored last (tie = "last").
\* Nearest is the store in that order, built by inserting the documents
\* one after the other.
RECURSIVE InsertHit(_, _, _)
InsertHit(sorted, item, tie) ==
  IF sorted = <<>> THEN <<item>>
  ELSE IF \/ item.dist < Head(sorted).dist
          \/ item.dist = Head(sorted).dist /\ tie = "last"
       THEN <<item>> \o sorted
       ELSE <<Head(sorted)>> \o InsertHit(Tail(sorted), item, tie)

RECURSIVE Nearest(_, _, _, _)
Nearest(docs, emb, tie, q) ==
  IF docs = <<>> THEN <<>>
  ELSE InsertHit(Nearest(SubSeq(docs, 1, Len(docs) - 1), emb, tie, q),
                 [dist |-> Dist(emb, q, docs[Len(docs)].page_content),
                  doc |-> docs[Len(docs)]],
                 tie)

Min(a, b) == IF a < b THEN a ELSE b

similarity_search(docs, emb, tie, q, k) ==
  LET nearest == Nearest(docs, emb, tie, q)
  IN [r \in 1..Min(k, Len(docs)) |-> nearest[r].doc]

SearchKMut(k) == k + 1

\* the k query_vector_db hands to similarity_search (k=k)
SearchK(k) == k

\* query_vector_db(vector_db, query_text, k): [] without a store and []
\* when the search raises (search_ok is false).
query_vector_db(vector_db, emb, tie, search_ok, query_text, k) ==
  IF ~vector_db.built THEN <<>>
  ELSE IF ~search_ok THEN <<>>
  ELSE similarity_search(vector_db.docs, emb, tie, query_text, SearchK(k))

\* ------------------------------------------------------- query_processor.py
\* What the language service does in a call: it answers, or ChatOpenAI(...)
\* raises (no API key, for instance), or building the prompt or the chain
\* raises, or chain.invoke raises.
LlmOutcomes == {"ok", "client_fails", "chain_fails", "invoke_fails"}

QueryK == 3               \* query_processor.py:48
GeneratedConfidence == 95 \* query_processor.py:104, in hundredths
FallbackConfidence == 70  \* query_processor.py:114, in hundredths

\* sep.join(strs)
RECURSIVE Join(_, _)
Join(strs, sep) ==
  IF strs = <<>> THEN ""
  ELSE IF Len(strs) = 1 THEN strs[1]
  ELSE strs[1] \o sep \o Join(Tail(strs), sep)

\* if citation not in citations: citations.append(citation)
RECURSIVE Dedup(_, _)
Dedup(strs, seen) ==
  IF strs = <<>> THEN seen
  ELSE IF \E i \in 1..Len(seen) : seen[i] = Head(strs)
       THEN Dedup(Tail(strs), seen)
       ELSE Dedup(Tail(strs), Append(seen, Head(strs)))

CitationsOf(docs) == [i \in 1..Len(docs) |-> docs[i].metadata.citation]

\* "\n".join([doc.page_content for doc in relevant_docs]); the texts of
\* the model are shorter than the 500 characters the fallback keeps.
RECURSIVE JoinTexts(_)
JoinTexts(docs) ==
  IF docs = <<>> THEN <<>>
  ELSE IF Len(docs) = 1 THEN docs[1].page_content
  ELSE docs[1].page_content \o <<NL>> \o JoinTexts(Tail(docs))

\* The results of query_document.  generations counts the calls of
\* chain.invoke; relevant_docs is the local of that name.
QueryResult(kind, text, citation, confidence, generations, relevant_docs) ==
  [answer |-> [kind |-> kind, text |-> text], citation |-> citation,
   confidence |-> confidence, generations |-> generations,
   relevant_docs |-> relevant_docs, raised |-> FALSE]

\* the handler of the outer try: 'Error processing query: ...'
QueryError(relevant_docs) ==
  QueryResult("error", <<>>, "Error", 0, 0, relevant_docs)

\* query_document(query, content_path, doc_id)
query_document(files, doc_id, query, env, llm) ==
  LET doc_vector_db == create_document_vector_db(files, doc_id, env.embed_ok)
      relevant_docs == query_vector_db(doc_vector_db, env.emb, env.tie,
                                       env.search_ok, query, QueryK)
  IN IF ~doc_vector_db.built
     THEN QueryResult("could_not_process", <<>>, "Error", 0, 0, <<>>)
     ELSE IF relevant_docs = <<>>
     THEN QueryResult("no_information", <<>>, "N/A", 0, 0, <<>>)
     ELSE IF llm \in {"client_fails", "chain_fails"}
     THEN QueryError(relevant_docs)
     ELSE IF llm = "invoke_fails"
     THEN QueryResult("fallback", JoinTexts(relevant_docs),
                      Join(CitationsOf(relevant_docs), "; "),
                      FallbackConfidence, 1, relevant_docs)
     ELSE QueryResult("generated", JoinTexts(relevant_docs),
                      Join(Dedup(CitationsOf(relevant_docs), <<>>), "; "),
                      GeneratedConfidence, 1, relevant_docs)

\* --------------------------------------- theme_processor.py: identify_themes
ThemesTopN == 5   \* theme_processor.py:23
ExpandK == 10     \* theme_processor.py:107

\* One entry of document_results, as /query builds it from the result of
\* query_document.
DocumentResult(doc_id, res) ==
  [doc_id |-> doc_id, filename |-> "Document", answer |-> res.answer,
   citation |-> res.citation]

\* f"Theme {i+1}: {theme_name}": the number of the theme and the text its
\* label is taken from (theme_name above works on the characters).
ThemeLabel(i, content) == [label |-> "Theme", index |-> i, of |-> content]

\* themes.append({...}) for the i-th of top_results
InitialTheme(i, result) ==
  [name |-> ThemeLabel(i, result.page_content),
   description |-> result.page_content,
   supporting_documents |-> <<result.metadata.doc_id>>,
   citations |-> <<result.metadata.citation>>]

Supports(theme, doc_id) ==
  \E j \in 1..Len(theme.supporting_documents) :
    theme.supporting_documents[j] = doc_id

\* the body of "for similar_doc in similar_results[1:]"
AddSupportMut(theme, similar_doc) ==
  [theme EXCEPT
     !.supporting_documents = Append(@, similar_doc.metadata.doc_id),
     !.citations = Append(@, similar_doc.metadata.citation)]

AddSupport(theme, similar_doc) ==
  IF Supports(theme, similar_doc.metadata.doc_id) THEN theme
  ELSE [theme EXCEPT
          !.supporting_documents = Append(@, similar_doc.metadata.doc_id),
          !.citations = Append(@, similar_doc.metadata.citation)]

\* The theme after each pass of that loop: the theme as created, then the
\* theme after each of the hits.
RECURSIVE ExpandSteps(_, _)
ExpandSteps(theme, hits) ==
  IF hits = <<>> THEN <<theme>>
  ELSE <<theme>> \o ExpandSteps(AddSupport(theme, Head(hits)), Tail(hits))

\* similar_results[1:]
SkipFirst(similar_results) ==
  IF similar_results = <<>> THEN <<>> ELSE Tail(similar_results)

Last(seq) == seq[Len(seq)]

\* The results of identify_themes.  builds, searches and generations count
\* the calls of create_multi_document_vector_db, query_vector_db and
\* synthesis_chain.invoke; top_results, similar (similar_results of each
\* theme) and steps (ExpandSteps of each theme) are its locals.
ThemeResult(themes, kind, answer, documents, builds, searches, generations, top_results, similar, steps) ==
  [raised |-> FALSE, themes |-> themes,
   synthesized_answer |-> [kind |-> kind, answer |-> answer,
                           themes |-> Len(themes), documents |-> documents],
   builds |-> builds, searches |-> searches, generations |-> generations,
   top_results |-> top_results, similar |-> similar, steps |-> steps]

NoAnswer == [kind |-> "none", text |-> <<>>]

\* an exception identify_themes does not catch reaches its caller
ThemesRaised(builds, searches, top_results, similar, steps) ==
  [ThemeResult(<<>>, "raised", NoAnswer, 0, builds, searches, 0, top_results,
               similar, steps) EXCEPT !.raised = TRUE]

SingleThemeMut(document_result) ==
  [name |-> [label |-> "Single Document Analysis", index |-> 0, of |-> <<>>],
   description |-> NoAnswer,
   supporting_documents |-> <<document_result.doc_id>>,
   citations |-> <<document_result.citation>>]

\* lines 45-50: the theme of the only document
SingleTheme(document_result) ==
  [name |-> [label |-> "Single Document Analysis", index |-> 0, of |-> <<>>],
   description |-> document_result.answer,
   supporting_documents |-> <<document_result.doc_id>>,
   citations |-> <<document_result.citation>>]

\* The one element of a set of one element.  A local of the code is
\* written {f(x) : x \in {value}}, which computes the value once.
The(S) == CHOOSE x \in S : TRUE

\* "for theme in themes": the re-query of the i-th theme and its passes
Expansion(i, result, multi_doc_db, env, requery_ok) ==
  The({[similar_results |-> similar_results,
        steps |-> ExpandSteps(InitialTheme(i, result),
                              SkipFirst(similar_results))] :
         similar_results \in
           {query_vector_db(multi_doc_db, env.emb, env.tie, requery_ok,
                            result.page_content, ExpandK)}})

\* lines 120-176: the synthesis, after the themes are expanded
Synthesis(expansions, top_results, documents, llm) ==
  LET themes == [i \in 1..Len(expansions) |-> Last(expansions[i].steps)]
      similar == [i \in 1..Len(expansions) |->
                    expansions[i].similar_results]
      steps == [i \in 1..Len(expansions) |-> expansions[i].steps]
      searches == 1 + Len(top_results)
  IN IF llm \in {"client_fails", "chain_fails"}
     THEN ThemesRaised(1, searches, top_results, similar, steps)
     ELSE IF llm = "invoke_fails"
     THEN ThemeResult(themes, "template", NoAnswer, documents, 1, searches,
                      1, top_results, similar, steps)
     ELSE ThemeResult(themes, "generated", NoAnswer, documents, 1, searches,
                      1, top_results, similar, steps)

\* lines 66-176: with the shared store built
ThemesOfStore(multi_doc_db, query, documents, top_n, env, requery_ok, llm) ==
  The({The({Synthesis(expansions, top_results, documents, llm) :
              expansions \in
                {[i \in 1..Len(top_results) |->
                    Expansion(i, top_results[i], multi_doc_db, env,
                              requery_ok)]}}) :
         top_results \in
           {query_vector_db(multi_doc_db, env.emb, env.tie, env.search_ok,
                            query, top_n)}})

\* identify_themes(query, document_results, top_n); requery_ok tells
\* whether the searches of the expansion step succeed.
identify_themes(files, query, document_results, top_n, env, requery_ok, llm) ==
  LET doc_ids == [i \in 1..Len(document_results) |->
                    document_results[i].doc_id]
  IN IF document_results = <<>>
     THEN ThemeResult(<<>>, "no_documents", NoAnswer, 0, 0, 0, 0, <<>>, <<>>,
                      <<>>)
     ELSE IF Len(document_results) = 1
     THEN ThemeResult(<<SingleTheme(document_results[1])>>, "answer",
                      document_results[1].answer, 1, 0, 0, 0, <<>>, <<>>,
                      <<>>)
     ELSE The({IF ~multi_doc_db.built
               THEN ThemeResult(<<>>, "no_vector_db", NoAnswer, Len(doc_ids),
                                1, 0, 0, <<>>, <<>>, <<>>)
               ELSE ThemesOfStore(multi_doc_db, query, Len(doc_ids), top_n,
                                  env, requery_ok, llm) :
                 multi_doc_db \in
                   {create_multi_document_vector_db(files, doc_ids,
                                                    env.embed_ok)}})

\* ----- the query-time functions called directly
\* The corpus: PDFs with a text layer ingested by process_document, with
\* one or two chunks or none, the two chunk texts Word(1) (on page 0) and
\* Word(2) (on page 1), and the chunks JSON written, missing, or cut short
\* by a failed write.
ChunkA == Piece(<<Word(1)>>, TRUE, 0)
ChunkB == Piece(<<Word(2)>>, TRUE, 1)

\* What process_document left of a document: no chunk, one chunk, two
\* chunks, and two chunks with the chunks JSON missing or cut short.
QDocuments ==
  {<<body, <<"ok", "ok", "ok">>>> : body \in {<<>>, <<ChunkA>>,
                                               <<ChunkA, ChunkB>>}}
  \cup {<<<<ChunkA, ChunkB>>, <<"ok", o, "ok">>>> :
          o \in {"open_failed", "write_failed"}}

\* The queries: the text of a chunk, and a text no chunk has.
QueryTexts == {<<Word(1)>>, <<Word(3)>>}

\* The embedding of the texts whose first word is Word(0..3).
Embeddings == {e \in [0..3 -> 0..1] : e[0] = 0 /\ e[1] = 0}
NoEmbedding == [n \in 0..3 |-> 0]

Ties == {"first", "last"}

\* The document ids of a request: up to MaxDocs ids, ingested or not,
\* possibly one id twice.  Every document of the corpus can be any of
\* QDocuments, so the ids are taken in the order 1, 2, ... of their first
\* use.
DocIdLists ==
  {l \in UNION {[1..n -> 1..MaxDocs] : n \in 0..MaxDocs} :
     \A i \in 1..Len(l) :
       l[i] = 1 \/ \E j \in 1..(i - 1) : l[j] >= l[i] - 1}

\* The search inputs: when the store is not built or the search raises, the
\* embedding and the order of ties have no part in the outcome.
SearchEnvs ==
  {[embed_ok |-> TRUE, search_ok |-> TRUE, emb |-> e, tie |-> t] :
     e \in Embeddings, t \in Ties}
  \cup {[embed_ok |-> TRUE, search_ok |-> FALSE, emb |-> NoEmbedding,
         tie |-> "first"],
        [embed_ok |-> FALSE, search_ok |-> TRUE, emb |-> NoEmbedding,
         tie |-> "first"]}

\* process_document(file_path, doc_id) for the next document of the corpus
QIngest ==
  /\ qry.pc = "idle"
  /\ next_id <= MaxDocs
  /\ \E d \in QDocuments :
       LET body == d[1]
           wr == d[2]
           text_len == IF body = <<>> THEN 0 ELSE OcrThreshold
           out == process_document(next_id, ".pdf",
                                   FastOf(FALSE, text_len, 0, body),
                                   OcrOf(<<FALSE, FALSE>>, body), wr,
                                   processed[next_id])
       IN processed' = [processed EXCEPT ![next_id] = out.files]
  /\ next_id' = next_id + 1
  /\ UNCHANGED <<qry, doc_status, doc_metadata, doc_queue, req, wpc, wjob,
                 main, put_order, call, loaded>>

\* query_vector_db(create_multi_document_vector_db(doc_ids), query_text, k)
QSearch ==
  /\ qry.pc = "idle"
  /\ \E doc_ids \in DocIdLists, env \in SearchEnvs, q \in QueryTexts,
        k \in 1..(MaxChunks + 1) :
       LET db == create_multi_document_vector_db(processed, doc_ids,
                                                 env.embed_ok)
       IN qry' = [pc |-> "searched", doc_ids |-> doc_ids, env |-> env,
                  query_text |-> q, k |-> k, vector_db |-> db,
                  result |-> query_vector_db(db, env.emb, env.tie,
                                             env.search_ok, q, k)]
  /\ UNCHANGED ingestion

\* query_document(query_text, content_path, doc_id)
QQueryDocument ==
  /\ qry.pc = "idle"
  /\ \E doc_id \in 1..MaxDocs, env \in SearchEnvs, q \in QueryTexts,
        llm \in LlmOutcomes :
       qry' = [pc |-> "answered", doc_id |-> doc_id, env |-> env,
               query_text |-> q, llm |-> llm,
               vector_db |-> create_document_vector_db(processed, doc_id,
                                                       env.embed_ok),
               result |-> query_document(processed, doc_id, q, env, llm)]
  /\ UNCHANGED ingestion

\* The inputs of identify_themes: the searches of the expansion step can
\* fail only when they are made.
ThemeEnvs ==
  {<<env, TRUE>> : env \in SearchEnvs}
  \cup {<<env, FALSE>> : env \in {e \in SearchEnvs :
                                    e.embed_ok /\ e.search_ok
                                      /\ e.tie = "first"}}

\* identify_themes(query_text, results, top_n) with the results /query
\* collects: query_document of each selected document
QIdentifyThemes ==
  /\ qry.pc = "idle"
  /\ \E doc_ids \in DocIdLists, te \in ThemeEnvs, q \in QueryTexts,
        llm \in LlmOutcomes, top_n \in {2, ThemesTopN} :
       \E results \in
            {[i \in 1..Len(doc_ids) |->
                DocumentResult(doc_ids[i],
                               query_document(processed, doc_ids[i], q,
                                              te[1], "ok"))]} :
         qry' = [pc |-> "themes", doc_ids |-> doc_ids, env |-> te[1],
                 requery_ok |-> te[2], query_text |-> q, llm |-> llm,
                 top_n |-> top_n, document_results |-> results,
                 result |-> identify_themes(processed, q, results, top_n,
                                            te[1], te[2], llm)]
  /\ UNCHANGED ingestion

QueryNext == QIngest \/ QSearch \/ QQueryDocument \/ QIdentifyThemes

QuerySpec == Init /\ [][QueryNext]_vars

\* ----- the service with its /query handler
\* doc_metadata.get(doc_id, {}) of the handler (app.py:333): the dict after
\* the call.
AfterGetMut(metadata, doc_id) ==
  IF doc_id \in DOMAIN metadata THEN metadata
  ELSE (doc_id :> <<>>) @@ metadata

AfterGet(metadata, doc_id) == metadata

\* What a POST /query is served with: the store can be built or not, and
\* the language service answers or cannot be reached.
HandlerEnvs ==
  {[embed_ok |-> TRUE, search_ok |-> TRUE, emb |-> NoEmbedding,
    tie |-> "first"],
   [embed_ok |-> FALSE, search_ok |-> TRUE, emb |-> NoEmbedding,
    tie |-> "first"]}

HandlerQuery == <<Word(1)>>

IsCompletedMut(status) == status # "queued"

\* doc_status[doc_id] == "completed" (app.py:324)
IsCompleted(status) == status = "completed"

\* One POST /query, up to the loop over doc_ids: 400 without document ids,
\* 500 when the shared store is not built.  The form is sent with no, one
\* or two document ids: one id takes identify_themes through its
\* single-document branch, two through the shared store.
QueryPost ==
  /\ main = "serving"
  /\ qry.pc = "idle"
  /\ \E doc_ids \in {l \in DocIdLists : Len(l) <= 2},
        env \in HandlerEnvs, llm \in {"ok", "client_fails"} :
       LET multi_doc_db ==
             create_multi_document_vector_db(processed, doc_ids,
                                             env.embed_ok)
       IN qry' = [pc |-> IF doc_ids = <<>> THEN "400"
                         ELSE IF ~multi_doc_db.built THEN "500"
                         ELSE "documents",
                  doc_ids |-> doc_ids, env |-> env, llm |-> llm,
                  multi_doc_db |-> IF doc_ids = <<>> THEN None
                                   ELSE multi_doc_db,
                  i |-> 1, results |-> <<>>, theme_results |-> <<>>]
  /\ UNCHANGED ingestion

\* One pass of the loop over doc_ids: a document that is not completed is
\* left out.
QueryDocument ==
  /\ qry.pc = "documents"
  /\ qry.i <= Len(qry.doc_ids)
  /\ LET doc_id == qry.doc_ids[qry.i]
     IN IF doc_id \in DOMAIN doc_status /\ IsCompleted(doc_status[doc_id])
        THEN /\ qry' = [qry EXCEPT
                          !.i = @ + 1,
                          !.results =
                            Append(@, DocumentResult(doc_id,
                                        query_document(processed, doc_id,
                                                       HandlerQuery, qry.env,
                                                       qry.llm)))]
             /\ doc_metadata' = AfterGet(doc_metadata, doc_id)
        ELSE /\ qry' = [qry EXCEPT !.i = @ + 1]
             /\ UNCHANGED doc_metadata
  /\ UNCHANGED <<doc_status, doc_queue, processed, next_id, req, wpc, wjob,
                 main, put_order, call, loaded>>

\* theme_processor.identify_themes(query_text, results) and the rendering of
\* the page; an exception of identify_themes is a 500.
QueryThemes ==
  /\ qry.pc = "documents"
  /\ qry.i > Len(qry.doc_ids)
  /\ LET res == identify_themes(processed, HandlerQuery, qry.results,
                                ThemesTopN, qry.env, TRUE, qry.llm)
     IN qry' = [qry EXCEPT !.pc = IF res.raised THEN "500" ELSE "rendered",
                           !.theme_results = res]
  /\ UNCHANGED ingestion

QueryServiceNext ==
  \/ Upload(1)
  \/ \E w \in Workers : Worker(w)
  \/ QueryPost
  \/ QueryDocument
  \/ QueryThemes

QueryServiceSpec == Init /\ [][QueryServiceNext]_vars

\* ================================================================ claims
Known == DOMAIN doc_status

ErrorMessages == {OcrError, WriteError} \cup {UnsupportedError(e) : e \in FileExts}
IsErrorStatus(status) == \E m \in ErrorMessages : status = ErrorStatus(m)

\* The positions of put_order that hold documents, and the documents put
\* before the shutdown sentinel.
DocPuts == {i \in 1..Len(put_order) : put_order[i] # NoneItem.doc_id}

\* ----- C1
StatusStep(d) ==
  IF d \notin Known
  THEN d \in DOMAIN doc_status' => doc_status'[d] = "queued"
  ELSE /\ d \in DOMAIN doc_status'
       /\ CASE doc_status[d] = "queued" ->
                 doc_status'[d] \in {"queued", "processing"}
            [] doc_status[d] = "processing" ->
                 \/ doc_status'[d] = "processing"
                 \/ doc_status'[d] = "completed"
                 \/ IsErrorStatus(doc_status'[d])
            [] OTHER -> doc_status'[d] = doc_status[d]

\* C1: the status of every document id only moves forward: it is first
\* written as 'queued', from 'queued' it can only become 'processing', from
\* 'processing' only 'completed' or 'error: ...', and a terminal status never
\* changes again, in every interleaving of the upload requests, the worker
\* and the shutdown.
C1_StatusMonotonic == [][\A d \in Docs : StatusStep(d)]_vars

\* both terminal values have been written
C1_Witness ==
  /\ \E d \in Known : doc_status[d] = "completed"
  /\ \E d \in Known : IsErrorStatus(doc_status[d])

AllFull(files) ==
  /\ files.content.state = "full"
  /\ files.chunks.state = "full"
  /\ files.metadata.state = "full"

\* C2: in every state in which doc_status[d] reads 'completed' (which is what
\* check_status, view_document and the query handlers read), the content
\* file, the chunks JSON and the metadata JSON of d have been written in
\* full, and the chunks JSON holds as many records as the summary counts.
C2_CompletedAfterPersist ==
  \A d \in Known :
    doc_status[d] = "completed" =>
      /\ AllFull(processed[d])
      /\ Len(processed[d].chunks.data) = processed[d].metadata.data.chunks_count

\* a document is 'completed' while the worker has not yet stored its
\* doc_metadata entry
C2_Witness ==
  \E w \in Workers :
    /\ wpc[w] = "store_metadata"
    /\ doc_status[wjob[w].doc_info.doc_id] = "completed"

\* ----- C4
\* C4: for two documents A, B with A put on doc_queue before B, B has left
\* 'queued' only if A has reached its terminal status; so A is set to
\* 'processing' before B is, and A is finished before B is dequeued.
C4_SubmissionOrder ==
  \A i \in DocPuts, j \in DocPuts :
    (i < j /\ doc_status[put_order[j]] # "queued")
      => IsTerminal(doc_status[put_order[i]])

\* two documents were put in the order opposite to their ids, and both were
\* processed
C4_Witness ==
  /\ Len(put_order) >= 2
  /\ put_order[1] = 2 /\ put_order[2] = 1
  /\ IsTerminal(doc_status[1]) /\ IsTerminal(doc_status[2])

\* ----- C5
\* C5: at most one document id has status 'processing', the document in
\* 'processing' is the one the worker holds, and no two workers are inside
\* process_document for the same document id.
C5_OneAtATime ==
  /\ Cardinality({d \in Known : doc_status[d] = "processing"}) <= 1
  /\ \A d \in Known :
       doc_status[d] = "processing" =>
         \E w \in Workers : wjob[w].doc_info.doc_id = d
  /\ \A w1 \in Workers, w2 \in Workers :
       (w1 # w2 /\ InProcessDocument(w1) /\ InProcessDocument(w2))
         => wjob[w1].doc_info.doc_id # wjob[w2].doc_info.doc_id

\* one document is being processed while another one waits on the queue,
\* with two upload requests still in their loops
C5_Witness ==
  /\ \E d \in Known : doc_status[d] = "processing"
  /\ \E k \in 1..Len(doc_queue) :
       doc_queue[k] # NoneItem /\ doc_status[doc_queue[k].doc_id] = "queued"
  /\ \A r \in Requests : req[r].pc # "idle"

\* ----- C3
AllOrNone(files) ==
  \/ Exists(files.content) /\ Exists(files.chunks) /\ Exists(files.metadata)
  \/ ~Exists(files.content) /\ ~Exists(files.chunks) /\ ~Exists(files.metadata)

\* C3: once process_document has returned, with 'success' or with 'error',
\* the content file, the chunks JSON and the metadata JSON of the document
\* exist all three or none of them.
C3_AllOrNothing ==
  call.pc # "idle" => AllOrNone(processed[call.doc_id])

\* ----- C6
SentinelPut == \E j \in 1..Len(put_order) : put_order[j] = NoneItem.doc_id
BeforeSentinel(i) ==
  \E j \in 1..Len(put_order) : i < j /\ put_order[j] = NoneItem.doc_id
WorkerGone(w) == wpc[w] \in {"exited", "killed"}

\* C6: when the worker has ended after the sentinel was put, every document
\* put on the queue before the sentinel has a terminal status, and no
\* document is left in 'processing' (a job in progress was not interrupted).
C6_SentinelDrains ==
  \A w \in Workers :
    WorkerGone(w) =>
      /\ \A i \in DocPuts :
           BeforeSentinel(i) => IsTerminal(doc_status[put_order[i]])
      /\ \A d \in Known : doc_status[d] # "processing"

\* ----- C7
\* The step in which worker w records a result that is not a success.
RecordsFailure(w) ==
  /\ wpc[w] = "result"
  /\ wpc'[w] \notin {"result", "killed"}
  /\ wjob[w].result.status # "success"

FailureRecorded(w) ==
  LET result == wjob[w].result
      doc_id == wjob[w].doc_info.doc_id
  IN /\ result.status = "error"
     /\ ~result.raised
     /\ result.error \in ErrorMessages
     /\ doc_status'[doc_id] = ErrorStatus(result.error)
     /\ wpc'[w] = "get"

\* C7: whenever process_document ends without success (unsupported
\* extension, loader or OCR error, failed write), it has returned an error
\* result with the message and has not raised, the worker writes
\* "error: <message>" as the status of that document and goes back to
\* doc_queue.get; the worker ends only by taking the sentinel or with the
\* process.
C7_FailureContained ==
  /\ [][\A w \in Workers : RecordsFailure(w) => FailureRecorded(w)]_vars
  /\ [](\A w \in Workers : WorkerGone(w) => SentinelPut)

\* a document failed and a document put after it was completed
C7_Witness ==
  \E i \in DocPuts, j \in DocPuts :
    /\ i < j
    /\ IsErrorStatus(doc_status[put_order[i]])
    /\ doc_status[put_order[j]] = "completed"

\* ----- C8
UpTo(n) == [i \in 1..n |-> i]
IsWrittenMarker(tok) == tok[1] = "mk"
\* the numbers of the markers process_document wrote, in file order
WrittenMarkers(text) ==
  LET ms == SelectSeq(text, IsWrittenMarker)
  IN [i \in 1..Len(ms) |-> ms[i][2]]

Returned == call.pc # "idle"
Succeeded == Returned /\ call.result.status = "success"

\* C8: after a successful process_document with N chunks, the chunk_id
\* values of the chunks JSON are 1, 2, ..., N in this order and so are the
\* numbers of the chunk markers it wrote into the content file, for the
\* fast PDF path, the OCR fallback and the image OCR alike.
C8_ChunkIdsContiguous ==
  Succeeded =>
    LET files == processed[call.doc_id]
        n == call.result.chunks
    IN /\ files.chunks.state = "full" /\ files.content.state = "full"
       /\ n = Len(call.split_docs)
       /\ [i \in 1..Len(files.chunks.data) |-> files.chunks.data[i].chunk_id]
            = UpTo(n)
       /\ WrittenMarkers(files.content.data) = UpTo(n)

\* two chunks from the OCR fallback of a PDF
C8_Witness ==
  /\ Succeeded
  /\ call.file_ext = ".pdf"
  /\ call.result.ocr_used
  /\ call.result.chunks >= 2

\* ----- C9
\* C9: after a successful process_document, get_document_chunks returns as
\* many chunks as were persisted, the k-th with the text of the k-th
\* persisted chunk and with its page label and citation, whatever the chunk
\* texts hold.
C9_RoundTrip ==
  (call.pc = "loaded" /\ call.result.status = "success") =>
    /\ Len(loaded) = Len(call.split_docs)
    /\ \A k \in 1..Len(loaded) :
         k <= Len(call.split_docs) =>
           /\ loaded[k].page_content = call.split_docs[k].page_content
           /\ loaded[k].metadata.page = ToString(PageOf(call.split_docs[k], k))
           /\ loaded[k].metadata.citation =
                Citation(ToString(PageOf(call.split_docs[k], k)), k)

\* ----- C10
OcrChunksOnly ==
  \A k \in 1..Len(call.split_docs) : call.split_docs[k].src = "ocr"
FastChunksOnly ==
  \A k \in 1..Len(call.split_docs) : call.split_docs[k].src = "fast"

\* C10 as stated: for a PDF, ocr_used is true exactly when the fast loader
\* raised or the extracted text has fewer than 100 characters.
C10_OcrUsedByTextLength ==
  (Succeeded /\ call.file_ext = ".pdf") =>
    (call.result.ocr_used
       <=> (call.fast.raised \/ call.fast.text_len < OcrThreshold))

\* C10 amended: for a PDF, ocr_used is true exactly when the fast loader
\* raised or the extracted text, with the whitespace at its ends stripped,
\* has fewer than 100 characters, and then all chunks come from the OCR
\* loader; otherwise ocr_used is false and all chunks come from the fast
\* loader.  For an image, ocr_used is true.  The metadata JSON records the
\* same flag.
C10_OcrUsed ==
  Succeeded =>
    /\ call.file_ext = ".pdf" =>
         /\ call.result.ocr_used
              <=> (call.fast.raised \/ StrippedLen(call.fast) < OcrThreshold)
         /\ call.result.ocr_used => OcrChunksOnly
         /\ ~call.result.ocr_used => FastChunksOnly
    /\ call.file_ext \in IMAGE_EXTENSIONS =>
         call.result.ocr_used /\ OcrChunksOnly
    /\ processed[call.doc_id].metadata.data.ocr_used = call.result.ocr_used

\* a PDF whose text has 100 characters or more, fewer than 100 of them
\* between the whitespace at its ends: OCR is used and yields chunks
C10_Witness ==
  /\ Succeeded
  /\ call.file_ext = ".pdf"
  /\ ~call.fast.raised
  /\ call.fast.text_len >= OcrThreshold
  /\ StrippedLen(call.fast) < OcrThreshold
  /\ call.fast.docs # <<>>
  /\ call.result.ocr_used
  /\ call.split_docs # <<>>

\* ----- C18
\* C18: after a successful process_document, the 'page' of the i-th record
\* of the chunks JSON is the page number the loader attached to the chunk,
\* and the literal 'Unknown' when the loader attached none; the citation
\* get_document_chunks derives is "Page <label>, Chunk <i>" with that label.
C18_PageLabel ==
  Succeeded =>
    LET info == processed[call.doc_id].chunks.data
    IN \A i \in 1..Len(call.split_docs) :
         LET label == IF call.split_docs[i].has_page
                      THEN ToString(call.split_docs[i].page) ELSE "Unknown"
         IN /\ ToString(info[i].page) = label
            /\ ChunkMetadata(info, call.doc_id, i).citation = Citation(label, i)

\* ----- C17
\* The place of the first '.', '!' or '?' of the chunk text, counted from
\* the start of the chunk (the newlines count).
RECURSIVE FirstTerminator(_)
FirstTerminator(c) ==
  IF Head(c).term THEN Head(c).pre + 1
  ELSE LineLen(Head(c)) + 1 + FirstTerminator(Tail(c))

\* C17: the theme name starts at the start of the chunk; it is the text up
\* to and including the first terminator when that is at most 50
\* characters, and that text cut to at most 50 characters, ellipsis
\* included, when it is longer; without a terminator it is exactly the
\* first 50 characters of the chunk (the whole chunk when shorter) with no
\* ellipsis.  It is never longer than 50 characters.
C17_ThemeName ==
  qry.pc = "named" =>
    LET c == qry.content
        name == qry.theme_name
    IN /\ name.line = 1
       /\ NameLen(name) <= NameLimit
       /\ IF HasSentence(c)
          THEN IF FirstTerminator(c) <= NameLimit
               THEN name = Name(1, FirstTerminator(c), FALSE)
               ELSE name.dots /\ name.chars < FirstTerminator(c)
          ELSE name = Name(1, IF ContentLen(c) > NameLimit THEN NameLimit
                                ELSE ContentLen(c), FALSE)

\* ----- C11
\* Every hit is a stored document, and no document is among the hits more
\* often than it is stored.
HitsAreStored(hits, docs) ==
  \A r \in 1..Len(hits) :
    Cardinality({r2 \in 1..Len(hits) : hits[r2] = hits[r]})
      <= Cardinality({i \in 1..Len(docs) : docs[i] = hits[r]})

\* C11: query_vector_db returns at most k chunks and at most as many as
\* the store holds, each returned chunk is a chunk of the store (no stored
\* chunk is returned more often than it is stored), and no returned chunk
\* is farther from the query than the one after it; without a store and
\* when the search raises the result is the empty list.
C11_SearchResult ==
  qry.pc = "searched" =>
    LET hits == qry.result
        docs == qry.vector_db.docs
    IN /\ Len(hits) <= qry.k
       /\ Len(hits) <= Len(docs)
       /\ HitsAreStored(hits, docs)
       /\ \A r \in 1..(Len(hits) - 1) :
            Dist(qry.env.emb, qry.query_text, hits[r].page_content)
              <= Dist(qry.env.emb, qry.query_text, hits[r + 1].page_content)
       /\ (~qry.vector_db.built \/ ~qry.env.search_ok) => hits = <<>>

\* a store of more than k chunks at different distances answers with k
C11_Witness ==
  /\ qry.pc = "searched"
  /\ qry.vector_db.built
  /\ Len(qry.vector_db.docs) > qry.k
  /\ Len(qry.result) = qry.k
  /\ qry.k >= 2
  /\ \E r \in 1..(Len(qry.result) - 1) :
       Dist(qry.env.emb, qry.query_text, qry.result[r].page_content)
         < Dist(qry.env.emb, qry.query_text, qry.result[r + 1].page_content)

\* ----- C14
\* C14: when retrieval returned at least one chunk and the language service
\* failed, at whatever step, query_document returns the fallback answer
\* built from the retrieved chunks, with their citations and a confidence
\* above 0 and below that of a generated answer, and it does not raise.
C14_GenerationFallback ==
  (/\ qry.pc = "answered"
   /\ qry.result.relevant_docs # <<>>
   /\ qry.llm # "ok") =>
    /\ ~qry.result.raised
    /\ qry.result.answer.kind = "fallback"
    /\ qry.result.answer.text = JoinTexts(qry.result.relevant_docs)
    /\ qry.result.citation
         = Join(CitationsOf(qry.result.relevant_docs), "; ")
    /\ qry.result.confidence > 0
    /\ qry.result.confidence < GeneratedConfidence

\* ----- C19
\* C19: query_document does not raise; with the store built and nothing
\* retrieved it returns the fixed 'no relevant information' answer with
\* citation 'N/A' and confidence 0 and makes no generation call; without a
\* store (unknown id, no persisted chunks) it returns an error result with
\* confidence 0; and the confidence is 0 in these cases only.
C19_NoAnswerCases ==
  qry.pc = "answered" =>
    LET res == qry.result
    IN /\ ~res.raised
       /\ (qry.vector_db.built /\ res.relevant_docs = <<>>) =>
            /\ res.answer.kind = "no_information"
            /\ res.citation = "N/A"
            /\ res.confidence = 0
            /\ res.generations = 0
       /\ ~qry.vector_db.built =>
            /\ res.answer.kind = "could_not_process"
            /\ res.citation = "Error"
            /\ res.confidence = 0
       /\ res.confidence = 0
            <=> (~qry.vector_db.built \/ res.relevant_docs = <<>>)

\* ----- C12
\* The themes of a result: those it returns and, for each, the theme after
\* every pass of the expansion loop.
ThemesAndSteps(res) ==
  {res.themes[i] : i \in 1..Len(res.themes)}
    \cup UNION {{res.steps[i][n] : n \in 1..Len(res.steps[i])} :
                  i \in 1..Len(res.steps)}

Aligned(theme) ==
  /\ Len(theme.supporting_documents) = Len(theme.citations)
  /\ \A j1, j2 \in 1..Len(theme.supporting_documents) :
       j1 # j2 => theme.supporting_documents[j1] # theme.supporting_documents[j2]

\* citations[j] is the citation of a chunk of document supporting_documents[j]
CitesChunks(theme) ==
  \A j \in 1..Min(Len(theme.supporting_documents), Len(theme.citations)) :
    LET d == theme.supporting_documents[j]
        chunks == get_document_chunks(FilesOf(processed, d), d)
    IN \E n \in 1..Len(chunks) :
         chunks[n].metadata.citation = theme.citations[j]

\* C12 as stated: in every theme identify_themes returns, and after every
\* pass of the expansion loop, supporting_documents and citations have the
\* same length, no document id is there twice, and citations[j] is the
\* citation of a chunk of document supporting_documents[j].
C12_ThemeCitesChunk ==
  qry.pc = "themes" =>
    \A theme \in ThemesAndSteps(qry.result) :
      Aligned(theme) /\ CitesChunks(theme)

\* C12 amended: the same, except that in the theme of the single-document
\* case citations[0] is the citation string of that document's answer.
C12_ThemesAligned ==
  qry.pc = "themes" =>
    /\ \A theme \in ThemesAndSteps(qry.result) : Aligned(theme)
    /\ Len(qry.document_results) = 1 =>
         \A i \in 1..Len(qry.result.themes) :
           qry.result.themes[i].citations
             = <<qry.document_results[1].citation>>
    /\ Len(qry.document_results) # 1 =>
         \A theme \in ThemesAndSteps(qry.result) : CitesChunks(theme)

\* a theme that gained a second document, from hits of which one was of a
\* document it already had
C12_Witness ==
  /\ qry.pc = "themes"
  /\ \E i \in 1..Len(qry.result.themes) :
       /\ Len(qry.result.themes[i].supporting_documents) = 2
       /\ Len(qry.result.similar[i]) >= 4

\* ----- C13
\* C13: with exactly one per-document result identify_themes returns one
\* theme, named 'Single Document Analysis', with that document's answer as
\* description, its id as the only supporting document and its citation as
\* the only citation, and that answer as synthesized answer, and it builds
\* no store, makes no search and no generation call; with no result it
\* returns no theme and the 'no documents processed' message.
C13_SingleDocument ==
  qry.pc = "themes" =>
    LET res == qry.result
        results == qry.document_results
    IN /\ Len(results) = 1 =>
            /\ ~res.raised
            /\ Len(res.themes) = 1
            /\ res.themes[1].name.label = "Single Document Analysis"
            /\ res.themes[1].description = results[1].answer
            /\ res.themes[1].supporting_documents = <<results[1].doc_id>>
            /\ res.themes[1].citations = <<results[1].citation>>
            /\ res.synthesized_answer.kind = "answer"
            /\ res.synthesized_answer.answer = results[1].answer
            /\ res.builds = 0 /\ res.searches = 0 /\ res.generations = 0
       /\ Len(results) = 0 =>
            /\ ~res.raised
            /\ res.themes = <<>>
            /\ res.synthesized_answer.kind = "no_documents"
            /\ res.builds = 0 /\ res.searches = 0 /\ res.generations = 0

\* one document with a generated answer, while the language service would
\* fail a call made now
C13_Witness ==
  /\ qry.pc = "themes"
  /\ Len(qry.document_results) = 1
  /\ qry.document_results[1].answer.kind = "generated"
  /\ qry.llm = "client_fails"
  /\ Len(qry.result.themes) = 1

\* ----- C15
\* C15: with two or more per-document results and the shared store built,
\* a failure of the language service at any step makes identify_themes
\* return the themes it computed and the template that names their number
\* and the number of documents; it does not raise.
C15_SynthesisFallback ==
  (/\ qry.pc = "themes"
   /\ Len(qry.document_results) >= 2
   /\ qry.result.builds = 1
   /\ qry.result.synthesized_answer.kind # "no_vector_db"
   /\ qry.llm # "ok") =>
    LET res == qry.result
    IN /\ ~res.raised
       /\ res.themes = [i \in 1..Len(res.steps) |-> Last(res.steps[i])]
       /\ res.synthesized_answer.kind = "template"
       /\ res.synthesized_answer.themes = Len(res.steps)
       /\ res.synthesized_answer.documents = Len(qry.document_results)

\* ----- C16
\* C16: for every theme, the first hit of the re-query is the chunk the
\* theme was made from, and every other hit that is not that chunk has its
\* document among the supporting documents, with the citation of the first
\* such hit of that document when the document was not the theme's own.
C16_Expansion ==
  qry.pc = "themes" =>
    LET res == qry.result
    IN \A i \in 1..Len(res.steps) :
         LET own == res.top_results[i]
             hits == res.similar[i]
             theme == Last(res.steps[i])
         IN /\ hits # <<>> => hits[1] = own
            /\ \A r \in 1..Len(hits) :
                 hits[r] # own =>
                   \E j \in 1..Len(theme.supporting_documents) :
                     /\ theme.supporting_documents[j]
                          = hits[r].metadata.doc_id
                     /\ (/\ hits[r].metadata.doc_id # own.metadata.doc_id
                         /\ \A r0 \in 1..(r - 1) :
                              hits[r0] = own
                                \/ hits[r0].metadata.doc_id
                                     # hits[r].metadata.doc_id)
                          => theme.citations[j] = hits[r].metadata.citation

\* ----- C20
\* C20: a step of the /query handler, with the stores it builds, the
\* searches, query_document and identify_themes, leaves doc_status,
\* doc_metadata, doc_queue and the files of every document as they are,
\* and the shared store of a request holds the same chunks in the same
\* order from then on, whatever uploads and the worker do in between.
C20_QueryFrame ==
  [][/\ qry' # qry =>
          UNCHANGED <<doc_status, doc_metadata, doc_queue, processed>>
     /\ qry.pc = "documents" => qry'.multi_doc_db = qry.multi_doc_db]_vars

\* a page was rendered with the answer of a completed document while the
\* worker is in the middle of another document
C20_Witness ==
  /\ qry.pc = "rendered"
  /\ qry.results # <<>>
  /\ \E w \in Workers : wpc[w] \notin {"get", "mark"}

\* ----- C21
\* The chunks JSON of the document of the call, as get_document_chunks
\* reads it: no record when the file is missing.
PersistedRecords ==
  IF processed[CallDoc].chunks.state = "full"
  THEN processed[CallDoc].chunks.data ELSE <<>>

PersistedPages(i) ==
  {PersistedRecords[k].page :
     k \in {n \in 1..Len(PersistedRecords) : PersistedRecords[n].chunk_id = i}}

\* C21: when the content file is there and the chunks JSON is missing or
\* has no record for index i, get_document_chunks still returns every chunk
\* of the content file, chunk i with page 'Unknown', the requested doc_id,
\* chunk_id i and citation 'Page Unknown, Chunk i'; a chunk whose record
\* exists has the page label of its record.
C21_DefaultMetadata ==
  (/\ call.pc = "loaded"
   /\ processed[CallDoc].content.state # "absent"
   /\ processed[CallDoc].chunks.state # "partial") =>
    /\ Len(loaded) = Len(TextChunks(processed[CallDoc].content.data))
    /\ \A i \in 1..Len(loaded) :
         IF PersistedPages(i) = {}
         THEN loaded[i].metadata
                = [page |-> "Unknown", doc_id |-> call.doc_id,
                   chunk_id |-> i,
                   citation |-> "Page Unknown, Chunk " \o ToString(i)]
         ELSE /\ \E pg \in PersistedPages(i) :
                   /\ loaded[i].metadata.page = ToString(pg)
                   /\ loaded[i].metadata.citation
                        = "Page " \o ToString(pg) \o ", Chunk " \o ToString(i)
              /\ loaded[i].metadata.chunk_id = i

\* a chunks JSON that has a record for one loaded chunk and none for
\* another
C21_Witness ==
  /\ call.pc = "loaded"
  /\ processed[CallDoc].chunks.state = "full"
  /\ \E i, j \in 1..Len(loaded) :
       PersistedPages(i) = {} /\ PersistedPages(j) # {}

\* ----- C22
\* C22: while no sentinel is put and the worker is scheduled fairly, every
\* document that upload_files has set to 'queued' reaches a terminal status
\* ('completed' or 'error: ...').
C22_EventuallyTerminal ==
  \A d \in Docs :
    (d \in DOMAIN doc_status)
      ~> (d \in DOMAIN doc_status /\ IsTerminal(doc_status[d]))

\* a document is completed after the document before it has failed
C22_Witness ==
  \E d1, d2 \in DOMAIN doc_status :
    /\ d1 < d2
    /\ IsErrorStatus(doc_status[d1])
    /\ doc_status[d2] = "completed"

\* ----- C23
\* C23: in every reachable state doc_metadata has an entry for a document
\* id exactly when doc_status of that id is 'completed'.
C23_MetadataIffCompleted ==
  \A d \in Docs :
    (d \in DOMAIN doc_metadata)
      <=> (d \in DOMAIN doc_status /\ doc_status[d] = "completed")

\* ----- C24
ResultIds == {qry.results[i].doc_id : i \in 1..Len(qry.results)}

Selected == {qry.doc_ids[i] : i \in 1..Len(qry.doc_ids)}

\* the chunks identify_themes reads into its store: those of the documents
\* of the results it is given
ThemeStoreDocs ==
  LET ids == [i \in 1..Len(qry.results) |-> qry.results[i].doc_id]
  IN AllDocs(processed, ids)

ChunksOf(seq) == {seq[i].metadata.doc_id : i \in 1..Len(seq)}

====
